---- MODULE Spec2Model ----
(***************************************************************************)
(* Model of the adaptive multi-provider resume parser                      *)
(* (app/services/multi_llm_parser.py, class MultiLLMParser): the rotation  *)
(* cursor, the rate-limit tracker, the four parsing modes, the quality     *)
(* scorer, the result merger and the suggestion engine.                    *)
(*                                                                         *)
(* Conventions                                                             *)
(*  - Python strings are TLA+ strings drawn from small vocabularies; what  *)
(*    the code computes on a string (len, strip, lower, "@" in s,          *)
(*    startswith) is given by the tables StrLen, StripLen, Lower, HasAt,   *)
(*    DomainHasDot, StartsWithHttp.                                        *)
(*  - Python None is the string None for record fields and the integer     *)
(*    NotLimited for rate_limit_tracker entries.                           *)
(*  - Scores are kept in units of 1/ScoreScale point so that the float     *)
(*    quotient filled_descs / len(experience) * 10 stays exact.            *)
(*  - Time is measured in minutes.  rate_limit_tracker[p] holds            *)
(*    limit_until - datetime.now(), the minutes left until the stored      *)
(*    expiry; Tick lets one minute pass.                                   *)
(***************************************************************************)
EXTENDS Integers, Sequences, FiniteSets, TLC

\* ------------------------------------------------------------------------
\* Bounds of the model
\* ------------------------------------------------------------------------
NumParsers == 3
MaxCalls == 2
MaxRetries == 1

\* ------------------------------------------------------------------------
\* Program constants
\* ------------------------------------------------------------------------
ScoreScale == 6
CooldownMinutes == 5
DefaultCooldownMinutes == 5

Pts(n) == n * ScoreScale

min_quality_score == Pts(75)
max_attempts == 3

None == "None"
NotLimited == -100

\* ------------------------------------------------------------------------
\* String tables
\* ------------------------------------------------------------------------
DescLong == "Detailed description Detailed description Detailed description Detailed description Detailed description "

StrLen(s) ==
    CASE s = "" -> 0
      [] s = "Jo" -> 2
      [] s = "Test User" -> 9
      [] s = "123" -> 3
      [] s = "1234567890" -> 10
      [] s = "bad" -> 3
      [] s = "a@b" -> 3
      [] s = "test@example.com" -> 16
      [] s = "https://linkedin.com/in/x" -> 25
      [] s = "linkedin.com/in/x" -> 17
      [] s = "https://github.com/x" -> 20
      [] s = "Python" -> 6
      [] s = "python" -> 6
      [] s = "PYTHON" -> 6
      [] s = "Go" -> 2
      [] s = "Built APIs" -> 10
      [] s = DescLong -> 105
      [] s = "Not specified" -> 13
      [] s = "Jan 2020" -> 8
      [] s = "Role" -> 4
      [] s = "Company" -> 7
      [] s = "Degree" -> 6
      [] s = "School" -> 6
      [] s = "Project" -> 7
      [] s = "FastAPI" -> 7
      [] s = "Best Paper" -> 10
      [] s = "best paper" -> 10
      [] s = "Engineer" -> 8
      [] s = "Berlin" -> 6
      [] OTHER -> 1

\* len(s.strip()): DescLong ends in one blank
StripLen(s) == IF s = DescLong THEN 104 ELSE StrLen(s)

\* s.lower()
Lower(s) ==
    CASE s = "Python" -> "python"
      [] s = "PYTHON" -> "python"
      [] s = "Go" -> "go"
      [] s = "Best Paper" -> "best paper"
      [] OTHER -> s

\* Python truthiness of an Optional[str]
Truthy(v) == v # None /\ v # ""

\* '@' in email
HasAt(s) == s \in {"a@b", "test@example.com"}

\* '.' in email.split('@')[1]
DomainHasDot(s) == s = "test@example.com"

\* url.startswith('http://') or url.startswith('https://')
StartsWithHttp(s) == s \in {"https://linkedin.com/in/x", "https://github.com/x"}

\* ------------------------------------------------------------------------
\* Sequence helpers
\* ------------------------------------------------------------------------
Range(s) == {s[i] : i \in 1..Len(s)}

\* the subsequence of s whose elements are in Keep, in order
RECURSIVE FilterSeq(_, _)
FilterSeq(s, Keep) ==
    IF s = <<>> THEN <<>>
    ELSE IF Head(s) \in Keep THEN <<Head(s)>> \o FilterSeq(Tail(s), Keep)
         ELSE FilterSeq(Tail(s), Keep)

\* F(lo) \o F(lo+1) \o ... \o F(hi): a Python loop that appends to a list
RECURSIVE Flatten(_)
Flatten(ss) == IF ss = <<>> THEN <<>> ELSE Head(ss) \o Flatten(Tail(ss))

ConcatMap(lo, hi, F(_)) == Flatten([k \in 1..(hi - lo + 1) |-> F(lo + k - 1)])

\* all orders in which iterating a Python set S can yield its elements
SetOrders(S) ==
    {s \in [1..Cardinality(S) -> S] : \A i, j \in 1..Cardinality(S) : i # j => s[i] # s[j]}

\* ------------------------------------------------------------------------
\* StructuredRecord (app/models/portfolio.py)
\* ------------------------------------------------------------------------
PersonalInfoFields == {"name", "email", "phone", "linkedin", "github", "bio", "location", "photo"}

PersonalInfo(name, email, phone, linkedin, github, bio, location) ==
    [name |-> name, email |-> email, phone |-> phone, linkedin |-> linkedin,
     github |-> github, bio |-> bio, location |-> location, photo |-> None]

Experience(role, company, start_date, end_date, description) ==
    [role |-> role, company |-> company, start_date |-> start_date,
     end_date |-> end_date, description |-> description]

Education(degree, school) == [degree |-> degree, school |-> school]

Project(title, tech_stack, description, link, github_url) ==
    [title |-> title, tech_stack |-> tech_stack, description |-> description,
     link |-> link, github_url |-> github_url]

Achievement(title, description) == [title |-> title, description |-> description]

PortfolioData(personal_info, skills, experience, education, projects, achievements) ==
    [personal_info |-> personal_info, skills |-> skills, experience |-> experience,
     education |-> education, projects |-> projects, achievements |-> achievements]

\* ------------------------------------------------------------------------
\* Quality scorer: MultiLLMParser._score_result
\* ------------------------------------------------------------------------
\* a scorer that never credits the name
NameValid_Never(name) == FALSE

NameValid(name) == Truthy(name) /\ StripLen(name) > 2

\* a scorer that credits any non-empty email
EmailPresent_Any(email) == Truthy(email)

EmailPresent(email) == Truthy(email) /\ HasAt(email)

EmailFormatOk(email) == Truthy(email) /\ HasAt(email) /\ DomainHasDot(email)

ValidDates(experience) ==
    \A i \in 1..Len(experience) :
        ~(~Truthy(experience[i].start_date) \/ experience[i].start_date = "Not specified")

EduComplete(education) ==
    \A i \in 1..Len(education) :
        ~(~Truthy(education[i].degree) \/ ~Truthy(education[i].school))

EmptyCount(data) ==
    Cardinality({i \in 1..Len(data.experience) :
                    ~Truthy(data.experience[i].role) \/ ~Truthy(data.experience[i].company)})
    + Cardinality({i \in 1..Len(data.projects) : ~Truthy(data.projects[i].title)})

UrlFieldOk(url) == ~(Truthy(url) /\ StripLen(url) > 0 /\ ~StartsWithHttp(url))

UrlValid(pi) == UrlFieldOk(pi.linkedin) /\ UrlFieldOk(pi.github)

FilledDescs(experience) ==
    Cardinality({i \in 1..Len(experience) :
                    Truthy(experience[i].description) /\ StripLen(experience[i].description) > 20})

\* (filled_descs / len(data.experience)) * 10, in score units
DescQuality(experience) ==
    IF experience = <<>> THEN 0
    ELSE (FilledDescs(experience) * Pts(10)) \div Len(experience)

SkillsWellFormed(skills) ==
    /\ skills # <<>>
    /\ \A i \in 1..Len(skills) : StripLen(skills[i]) > 0

HasDuplicates(skills) == Len(skills) # Cardinality({Lower(skills[i]) : i \in 1..Len(skills)})

\* the six sections of a record are never None
SectionsPresent(data) == 6

\* a scorer without the cap
ScoreMin_Sum(a, b) == a + b

ScoreMin(a, b) == IF a < b THEN a ELSE b

RequiredFieldPoints(data) ==
    (IF NameValid(data.personal_info.name) THEN Pts(20) ELSE 0)
    + (IF EmailPresent(data.personal_info.email) THEN Pts(20) ELSE 0)

FormatPoints(data) ==
    (IF EmailFormatOk(data.personal_info.email) THEN Pts(10) ELSE 0)
    + (IF data.experience # <<>> /\ ValidDates(data.experience) THEN Pts(5) ELSE 0)
    + (IF data.education # <<>> /\ EduComplete(data.education) THEN Pts(5) ELSE 0)
    + (IF EmptyCount(data) = 0 THEN Pts(5) ELSE 0)
    + (IF UrlValid(data.personal_info) THEN Pts(5) ELSE 0)

StructurePoints(data) ==
    DescQuality(data.experience)
    + (IF SkillsWellFormed(data.skills) THEN Pts(5) ELSE 0)
    + (IF SectionsPresent(data) = 6 THEN Pts(5) ELSE 0)

ConsistencyPoints(data) ==
    (IF ~HasDuplicates(data.skills) THEN Pts(5) ELSE 0)
    + Pts(5)

\* a scorer that awards nothing
ScoreResult_Zero(data) == 0

ScoreResult(data) ==
    ScoreMin(RequiredFieldPoints(data) + FormatPoints(data)
             + StructurePoints(data) + ConsistencyPoints(data), Pts(100))

\* ------------------------------------------------------------------------
\* Result merger: MultiLLMParser._merge_results
\* ------------------------------------------------------------------------
\* list(set(xs)): the elements of xs once each, in the iteration order of the
\* set, which hash_order (an enumeration of all strings that occur) fixes
ListOfSet(xs, hash_order) == FilterSeq(hash_order, Range(xs))

MergePersonalInfo(primary_pi, secondary_pi) ==
    [key \in PersonalInfoFields |->
        IF ~Truthy(primary_pi[key]) /\ Truthy(secondary_pi[key])
        THEN secondary_pi[key] ELSE primary_pi[key]]

MergeSkills(primary_skills, secondary_skills, hash_order) ==
    ListOfSet(primary_skills \o secondary_skills, hash_order)

\* a merger that keeps primary's sequence whatever its length
MergeLonger_Primary(primary_seq, secondary_seq) == primary_seq

\* experience, education, projects: use whichever has more
MergeLonger(primary_seq, secondary_seq) ==
    IF Len(secondary_seq) > Len(primary_seq) THEN secondary_seq ELSE primary_seq

\* a merger that appends every achievement of the secondary
MergeAchievements_All(primary_ach, secondary_ach) == primary_ach \o secondary_ach

MergeAchievements(primary_ach, secondary_ach) ==
    LET primary_titles == {primary_ach[i].title : i \in 1..Len(primary_ach)}
        Extra(i) == IF secondary_ach[i].title \notin primary_titles
                    THEN <<secondary_ach[i]>> ELSE <<>>
    IN primary_ach \o ConcatMap(1, Len(secondary_ach), Extra)

MergeResults(primary, secondary, hash_order) ==
    [personal_info |-> MergePersonalInfo(primary.personal_info, secondary.personal_info),
     skills        |-> MergeSkills(primary.skills, secondary.skills, hash_order),
     experience    |-> MergeLonger(primary.experience, secondary.experience),
     education     |-> MergeLonger(primary.education, secondary.education),
     projects      |-> MergeLonger(primary.projects, secondary.projects),
     achievements  |-> MergeAchievements(primary.achievements, secondary.achievements)]

\* ------------------------------------------------------------------------
\* Suggestion engine: MultiLLMParser._generate_suggestions
\* A suggestion is [type, action, index, field, value]; index is the 1-based
\* position (0 when the suggestion carries no index), field is "" when the
\* suggestion carries no field.
\* ------------------------------------------------------------------------
Suggestion(type, action, index, field, value) ==
    [type |-> type, action |-> action, index |-> index, field |-> field, value |-> value]

SuggestedInfoFields == <<"phone", "linkedin", "github", "bio", "location">>

SuggestPersonalInfo(current, validator) ==
    LET One(k) ==
            LET field == SuggestedInfoFields[k]
                current_val == current.personal_info[field]
                validator_val == validator.personal_info[field]
            IN IF ~Truthy(current_val) /\ Truthy(validator_val)
               THEN <<Suggestion("personal_info", "add", 0, field, validator_val)>>
               ELSE IF /\ Truthy(current_val) /\ Truthy(validator_val)
                       /\ StrLen(validator_val) > StrLen(current_val)
                    THEN <<Suggestion("personal_info", "enhance", 0, field, validator_val)>>
                    ELSE <<>>
    IN ConcatMap(1, Len(SuggestedInfoFields), One)

SuggestSkills(current, validator) ==
    LET current_skills == {Lower(current.skills[i]) : i \in 1..Len(current.skills)}
        validator_skills == {Lower(validator.skills[i]) : i \in 1..Len(validator.skills)}
        missing_skills == validator_skills \ current_skills
        original_skills ==
            FilterSeq(validator.skills, {x \in Range(validator.skills) : Lower(x) \in missing_skills})
    IN IF missing_skills # {}
       THEN <<Suggestion("skills", "add", 0, "", original_skills)>>
       ELSE <<>>

SuggestExperienceDescriptions(current, validator) ==
    LET One(i) ==
            LET exp_desc == current.experience[i].description
            IN IF StrLen(exp_desc) < 100 /\ i <= Len(validator.experience)
               THEN LET val_desc == validator.experience[i].description
                    IN IF Truthy(val_desc) /\ StrLen(val_desc) > StrLen(exp_desc)
                       THEN <<Suggestion("experience", "enhance", i, "description", val_desc)>>
                       ELSE <<>>
               ELSE <<>>
    IN ConcatMap(1, Len(current.experience), One)

\* entries of the validator's sequence beyond the length of current's
SuggestAppend(type, current_seq, validator_seq) ==
    LET One(i) == <<Suggestion(type, "add", 0, "", validator_seq[i])>>
    IN ConcatMap(Len(current_seq) + 1, Len(validator_seq), One)

SuggestAchievements(current, validator) ==
    LET current_ach_titles ==
            {Lower(current.achievements[i].title) : i \in 1..Len(current.achievements)}
        One(i) == IF Lower(validator.achievements[i].title) \notin current_ach_titles
                  THEN <<Suggestion("achievements", "add", 0, "", validator.achievements[i])>>
                  ELSE <<>>
    IN ConcatMap(1, Len(validator.achievements), One)

SuggestProjectDetails(current, validator) ==
    LET One(i) ==
            IF i <= Len(validator.projects)
            THEN LET proj == current.projects[i]
                     val_proj == validator.projects[i]
                     Url(f) == IF ~Truthy(proj[f]) /\ Truthy(val_proj[f])
                               THEN <<Suggestion("projects", "add", i, f, val_proj[f])>>
                               ELSE <<>>
                 IN (IF ~Truthy(proj.tech_stack) /\ Truthy(val_proj.tech_stack)
                     THEN <<Suggestion("projects", "add", i, "tech_stack", val_proj.tech_stack)>>
                     ELSE <<>>)
                    \o (IF ~Truthy(proj.description) /\ Truthy(val_proj.description)
                        THEN <<Suggestion("projects", "add", i, "description", val_proj.description)>>
                        ELSE IF /\ Truthy(val_proj.description)
                                /\ StrLen(val_proj.description) > StrLen(proj.description)
                             THEN <<Suggestion("projects", "enhance", i, "description",
                                               val_proj.description)>>
                             ELSE <<>>)
                    \o Url("link") \o Url("github_url")
            ELSE <<>>
    IN ConcatMap(1, Len(current.projects), One)

GenerateSuggestions(current, validator) ==
    SuggestPersonalInfo(current, validator)
    \o SuggestSkills(current, validator)
    \o SuggestExperienceDescriptions(current, validator)
    \o SuggestAppend("experience", current.experience, validator.experience)
    \o SuggestAchievements(current, validator)
    \o SuggestAppend("projects", current.projects, validator.projects)
    \o SuggestProjectDetails(current, validator)
    \o SuggestAppend("education", current.education, validator.education)

\* ------------------------------------------------------------------------
\* Auto-apply: MultiLLMParser._apply_suggestions
\* ------------------------------------------------------------------------
\* what data['projects'].append(sug['value']) appends: the project dict of an
\* "add a project" suggestion, or the bare field value of an "add a field"
\* suggestion (which carries an index and a field), which is not a project
AsProjectEntry(sug) == IF sug.field = "" THEN sug.value ELSE [not_a_project |-> sug.value]

\* PortfolioData(**data) without validation of the project entries
Validates_Unchecked(data) == TRUE

\* PortfolioData(**data) accepts the dict: every project is a project dict
Validates(data) ==
    \A i \in 1..Len(data.projects) : "not_a_project" \notin DOMAIN data.projects[i]

ApplySuggestion(data, sug, hash_order) ==
    CASE sug.type = "personal_info" ->
            IF sug.action \in {"add", "enhance"}
            THEN [data EXCEPT !.personal_info[sug.field] = sug.value]
            ELSE data
      [] sug.type = "skills" /\ sug.action = "add" ->
            [data EXCEPT !.skills = ListOfSet(data.skills \o sug.value, hash_order)]
      [] sug.type = "experience" ->
            IF sug.action = "add"
            THEN [data EXCEPT !.experience = Append(data.experience, sug.value)]
            ELSE IF sug.action = "enhance" /\ sug.index # 0 /\ sug.index <= Len(data.experience)
                 THEN [data EXCEPT !.experience[sug.index][sug.field] = sug.value]
                 ELSE data
      [] sug.type = "achievements" /\ sug.action = "add" ->
            [data EXCEPT !.achievements = Append(data.achievements, sug.value)]
      [] sug.type = "projects" ->
            IF sug.action = "add"
            THEN [data EXCEPT !.projects = Append(data.projects, AsProjectEntry(sug))]
            ELSE IF /\ sug.index # 0 /\ sug.index <= Len(data.projects)
                    /\ sug.action \in {"add", "enhance"}
                 THEN [data EXCEPT !.projects[sug.index][sug.field] = sug.value]
                 ELSE data
      [] sug.type = "education" /\ sug.action = "add" ->
            [data EXCEPT !.education = Append(data.education, sug.value)]
      [] OTHER -> data

RECURSIVE ApplySuggestions(_, _, _)
ApplySuggestions(current, suggestions, hash_order) ==
    IF suggestions = <<>> THEN current
    ELSE ApplySuggestions(ApplySuggestion(current, Head(suggestions), hash_order),
                          Tail(suggestions), hash_order)

\* merge, suggest, auto-apply: the body of the try block of _cross_validate
\* after the validator has returned
EnhancedResult(primary_result, validation_result, hash_order) ==
    LET merged_result == MergeResults(primary_result, validation_result, hash_order)
        suggestions == GenerateSuggestions(merged_result, validation_result)
    IN IF suggestions # <<>>
       THEN ApplySuggestions(merged_result, suggestions, hash_order)
       ELSE merged_result

\* ------------------------------------------------------------------------
\* Provider adapters: what parser.parse_resume(resume_text) can do
\* ------------------------------------------------------------------------
\* parser_configs, in priority order; the first NumParsers have an API key
parser_configs == <<"Groq", "Mistral", "Cohere", "Gemini", "OpenAI">>

parsers == SubSeq(parser_configs, 1, NumParsers)

total_parsers == Len(parsers)

ParserNames == Range(parsers)

InfoJo == PersonalInfo("Jo", "test@example.com", None, None, None, None, None)
InfoJoPhone == PersonalInfo("Jo", "test@example.com", "123", None, None, None, None)
InfoUser == PersonalInfo("Test User", "test@example.com", None, None, None, None, None)
InfoUserPhone == PersonalInfo("Test User", "test@example.com", "1234567890", None, None, None, None)

RecLowA == PortfolioData(InfoJo, <<>>, <<>>, <<>>, <<>>, <<>>)
RecLowB == PortfolioData(InfoJoPhone, <<>>, <<>>, <<>>, <<>>, <<>>)
RecLowC ==
    PortfolioData(InfoJo, <<"Go">>, <<>>, <<>>,
                  <<Project("Project", "FastAPI", "Built APIs", None, None)>>, <<>>)
RecHigh ==
    PortfolioData(InfoUserPhone, <<"Python">>,
                  <<Experience("Role", "Company", "Jan 2020", "Present", DescLong)>>,
                  <<>>, <<>>, <<>>)
RecNoisy ==
    PortfolioData(InfoUser, <<"python">>,
                  <<Experience("", "Company", "Not specified", None, ""),
                    Experience("Engineer", "Company", "Not specified", None, "")>>,
                  <<>>, <<Project("Project", "", "", None, None)>>, <<>>)

\* the records an adapter can return (each passes PortfolioData validation)
ProviderRecords == {RecLowA, RecLowB, RecLowC, RecHigh, RecNoisy}

\* the messages an adapter's exception can carry
ProviderErrors == {"Connection reset", "Rate limit exceeded 429", "Quota exceeded"}

\* the rate-limit signatures found in str(e).lower()
SignaturesIn(msg) ==
    CASE msg = "Rate limit exceeded 429" -> {"rate limit", "429"}
      [] msg = "Quota exceeded" -> {"quota"}
      [] OTHER -> {}

RateLimitKeywords == {"rate limit", "quota", "too many requests", "429", "resource_exhausted"}

\* adaptive mode: any(keyword in error_msg for keyword in [...])
IsRateLimitError(msg) == SignaturesIn(msg) \cap RateLimitKeywords # {}

\* fallback and ensemble modes: 'rate limit' in str(e).lower()
IsRateLimitErrorSimple(msg) == "rate limit" \in SignaturesIn(msg)

\* raise ValueError(f"{name} parse error: {str(e)}") of an adapter
ParseError(name, msg) == <<name, " parse error: ", msg>>

\* the aggregated failure listing the parsers instead of counting them
AllFailedError_Named == <<"All parsers failed: ">> \o parsers

\* raise ValueError(f"All {total_parsers} parsers failed - no parser succeeded")
AllFailedError == <<"All ", ToString(total_parsers), " parsers failed - no parser succeeded">>

\* raise ValueError("All parsers failed") of the fallback and ensemble modes
AllFailedSimple == <<"All parsers failed">>

\* the expiry test with >= for >
IsExpired_AtExpiry(remaining) == remaining <= 0

\* ------------------------------------------------------------------------
\* Rate-limit tracker
\* ------------------------------------------------------------------------
\* datetime.now() > limit_until, on remaining = limit_until - datetime.now()
IsExpired(remaining) == remaining < 0

\* a limit test that never answers True
IsRateLimited_Never(tracker, name) == [limited |-> FALSE, tracker |-> tracker]

\* _is_rate_limited: the answer and the tracker it leaves
IsRateLimited(tracker, name) ==
    IF tracker[name] = NotLimited THEN [limited |-> FALSE, tracker |-> tracker]
    ELSE IF IsExpired(tracker[name])
         THEN [limited |-> FALSE, tracker |-> [tracker EXCEPT ![name] = NotLimited]]
         ELSE [limited |-> TRUE, tracker |-> tracker]

\* the mark without the timedelta: limit_until = datetime.now()
MarkRateLimited_Now(tracker, name, minutes) == [tracker EXCEPT ![name] = 0]

\* _mark_rate_limited: limit_until = datetime.now() + timedelta(minutes)
MarkRateLimited(tracker, name, minutes) == [tracker EXCEPT ![name] = minutes]

\* the increment at line 203 without the modulo
NextIndex_Unwrapped(index) == index + 1

NextIndex(index) == (index + 1) % Len(parsers)

\* _get_next_available_parser: scan from the cursor, at most len(parsers) steps
RECURSIVE ScanParsers(_, _, _)
ScanParsers(attempts, index, tracker) ==
    IF ~(attempts < Len(parsers))
    THEN [found |-> FALSE, name |-> None, index |-> index, tracker |-> tracker]
    ELSE LET name == parsers[index + 1]
             check == IsRateLimited(tracker, name)
         IN IF check.limited
            THEN ScanParsers(attempts + 1, NextIndex(index), check.tracker)
            ELSE [found |-> TRUE, name |-> name, index |-> NextIndex(index),
                  tracker |-> check.tracker]

GetNextAvailableParser(index, tracker) == ScanParsers(0, index, tracker)

\* a validator search that takes the last eligible parser in order
PickValidator_Last(i, primary_name, tracker) ==
    LET eligible == {k \in 1..Len(parsers) :
                        parsers[k] # primary_name /\ tracker[parsers[k]] = NotLimited}
    IN IF eligible = {} THEN [found |-> FALSE, name |-> None, tracker |-> tracker]
       ELSE [found |-> TRUE,
             name |-> parsers[CHOOSE k \in eligible : \A j \in eligible : j <= k],
             tracker |-> tracker]

\* the for loop of _cross_validate: first parser in order, other than the
\* primary, that is not rate limited
RECURSIVE PickValidator(_, _, _)
PickValidator(i, primary_name, tracker) ==
    IF i > Len(parsers) THEN [found |-> FALSE, name |-> None, tracker |-> tracker]
    ELSE IF parsers[i] = primary_name THEN PickValidator(i + 1, primary_name, tracker)
    ELSE LET check == IsRateLimited(tracker, parsers[i])
         IN IF check.limited THEN PickValidator(i + 1, primary_name, check.tracker)
            ELSE [found |-> TRUE, name |-> parsers[i], tracker |-> check.tracker]

\* the while test stopping one parser short
LoopContinues_OffByOne(tried) == Cardinality(tried) < total_parsers - 1

\* ------------------------------------------------------------------------
\* Decisions of _adaptive_parse
\* ------------------------------------------------------------------------
\* while len(parsers_tried) < total_parsers
LoopContinues(tried) == Cardinality(tried) < total_parsers

\* a rotation loop that forgets its attempts
AlreadyTried_Never(name, tried) == FALSE

\* if parser_name in parsers_tried (and not rate limited): continue
AlreadyTried(name, tried) == name \in tried

\* the best-candidate test with >= for >
IsBetter_OrEqual(score, best) == score >= best

\* if score > best_score
IsBetter(score, best) == score > best

\* the threshold test with > for >=
MeetsThreshold_Strict(score) == score > min_quality_score

\* if score >= self.min_quality_score
MeetsThreshold(score) == score >= min_quality_score

\* ------------------------------------------------------------------------
\* State
\* ------------------------------------------------------------------------
VARIABLES
    mode,                \* self.mode
    rate_limit_tracker,  \* self.rate_limit_tracker, as minutes left per parser
    current_index,       \* self.current_index
    pc,                  \* position of the running parse_resume call
    calls,               \* number of parse_resume calls started
    parsers_tried,       \* _adaptive_parse: parsers_tried
    best_result,         \* _adaptive_parse: best_result (<<>> is None)
    best_score,          \* _adaptive_parse: best_score
    parser_name,         \* parser about to be invoked
    result,              \* the accepted (primary) result handed to _cross_validate
    validator_name,      \* _cross_validate: validator_name
    idx,                 \* loop position of the fallback and ensemble for loops
    results,             \* _parse_with_ensemble: results
    hist,                \* history: the provider invocations of the running call
    outcome,             \* history: how the call ended
    scored_data,         \* _score_result called directly: the records passed (data)
    scores,              \* _score_result called directly: the values returned
    merge_primary,       \* _merge_results called directly: the object passed as primary
    merge_secondary,     \* _merge_results called directly: the object passed as secondary
    merged,              \* _merge_results called directly: the record returned
    enhance_current,     \* merge, suggest, apply called in turn: the record to enhance
    enhance_validator,   \* merge, suggest, apply called in turn: the validator's record
    suggested,           \* _generate_suggestions: the lists returned, one per call
    applied,             \* _apply_suggestions: how each call ended
    extractions          \* interleaved _adaptive_parse calls: the locals and position of each

vars == <<mode, rate_limit_tracker, current_index, pc, calls, parsers_tried,
          best_result, best_score, parser_name, result, validator_name, idx,
          results, hist, outcome, scored_data, scores, merge_primary,
          merge_secondary, merged, enhance_current, enhance_validator, suggested,
          applied, extractions>>

\* the arguments and return values of direct calls of the scorer, the merger,
\* the suggestion engine and auto-apply
enhance_vars == <<enhance_current, enhance_validator, suggested, applied>>

\* and the calls of _adaptive_parse that run interleaved with one another
call_vars ==
    <<scored_data, scores, merge_primary, merge_secondary, merged, enhance_vars, extractions>>

instance_vars == <<mode, rate_limit_tracker, current_index>>

Modes == {"adaptive", "fallback", "ensemble", "validation"}

\* the calls of _adaptive_parse running at the same time on one router, each
\* with its own locals: position, parsers_tried, name, the cursor value
\* loaded for the increment at line 203 (<<>> outside it), the parsers
\* invoked so far in order, and how the rotation loop ended
Extractions == {1, 2}

NoExtractions ==
    [e \in Extractions |->
        [pc |-> "idle", parsers_tried |-> {}, name |-> None, loaded |-> <<>>,
         invoked |-> <<>>, ended |-> ""]]

\* how a call ended: the return or raise statement taken (site), the record
\* returned, the message of the exception raised
NoOutcome == [kind |-> "none", site |-> "", value |-> <<>>, message |-> <<>>]
Returned(rec, site) == [kind |-> "returned", site |-> site, value |-> <<rec>>, message |-> <<>>]
Raised(message, site) == [kind |-> "raised", site |-> site, value |-> <<>>, message |-> message]

\* the code after the while loop of _adaptive_parse
AfterLoop(best) ==
    IF best # <<>> THEN Returned(best[1], "best") ELSE Raised(AllFailedError, "all_failed")

\* ------------------------------------------------------------------------
\* History of the running call (not program state):
\*   calls     per phase and parser, the number of invocations
\*   errs      per parser, the error messages it raised
\*   oks       the parsers that returned a record
\*   again     the parsers invoked again after raising an error that carries
\*             a rate-limit signature
\*   cool      per parser, the minutes left of the cooldown that began at its
\*             latest error with a rate-limit signature in the rotation loop
\*             (-1 once over, NotLimited if there was none)
\*   early     the parsers invoked while that cooldown was still running
\*   top       the first record of highest score returned to the rotation loop
\*   accepted  a record returned to the rotation loop scored 75 or more
\*   late      the rotation invocations made after that
\*   vrec      the record the cross-validator returned
\*   retried   the <<parser, phase>> invocations of a parser that had raised an
\*             error without rate-limit signature earlier in the call
\* ------------------------------------------------------------------------
Phases == {"rotate", "validate", "fallback", "ensemble", "primary"}

NoHistory ==
    [calls |-> [phase \in Phases |-> [name \in ParserNames |-> 0]],
     errs |-> [name \in ParserNames |-> {}],
     oks |-> {},
     again |-> {},
     cool |-> [name \in ParserNames |-> NotLimited],
     early |-> {},
     top |-> <<>>,
     accepted |-> FALSE,
     late |-> 0,
     vrec |-> <<>>,
     retried |-> {}]

Note(h, name, phase, rec, err) ==
    [calls |-> [h.calls EXCEPT ![phase][name] = @ + 1],
     errs |-> IF err # "" THEN [h.errs EXCEPT ![name] = @ \cup {err}] ELSE h.errs,
     oks |-> IF rec # <<>> THEN h.oks \cup {name} ELSE h.oks,
     again |-> IF \E m \in h.errs[name] : SignaturesIn(m) # {}
               THEN h.again \cup {name} ELSE h.again,
     cool |-> IF phase = "rotate" /\ SignaturesIn(err) # {}
              THEN [h.cool EXCEPT ![name] = 5] ELSE h.cool,
     early |-> IF h.cool[name] \in 0..5 THEN h.early \cup {name} ELSE h.early,
     top |-> IF /\ phase = "rotate" /\ rec # <<>>
                /\ (h.top = <<>> \/ ScoreResult(rec[1]) > ScoreResult(h.top[1]))
             THEN rec ELSE h.top,
     accepted |-> h.accepted \/ (phase = "rotate" /\ rec # <<>>
                                   /\ ScoreResult(rec[1]) >= Pts(75)),
     late |-> IF phase = "rotate" /\ h.accepted THEN h.late + 1 ELSE h.late,
     vrec |-> IF phase = "validate" THEN rec ELSE h.vrec,
     retried |-> IF \E m \in h.errs[name] : SignaturesIn(m) = {}
                 THEN h.retried \cup {<<name, phase>>} ELSE h.retried]

\* one minute passes for a countdown
Elapse(remaining) == IF remaining \in {NotLimited, -1} THEN remaining ELSE remaining - 1

CallsIn(h, phase) ==
    LET RECURSIVE Sum(_)
        Sum(S) == IF S = {} THEN 0
                  ELSE LET n == CHOOSE x \in S : TRUE IN h.calls[phase][n] + Sum(S \ {n})
    IN Sum(ParserNames)

Rotations(h) == CallsIn(h, "rotate")

CallsOf(h, name) ==
    h.calls["rotate"][name] + h.calls["validate"][name] + h.calls["fallback"][name]
    + h.calls["ensemble"][name] + h.calls["primary"][name]

\* __init__ and _initialize_parsers
Init ==
    /\ mode \in Modes
    /\ rate_limit_tracker = [name \in ParserNames |-> NotLimited]
    /\ current_index = 0
    /\ pc = "idle"
    /\ calls = 0
    /\ parsers_tried = {}
    /\ best_result = <<>>
    /\ best_score = 0
    /\ parser_name = None
    /\ result = <<>>
    /\ validator_name = None
    /\ idx = 1
    /\ results = <<>>
    /\ hist = NoHistory
    /\ outcome = NoOutcome
    /\ scored_data = <<>>
    /\ scores = <<>>
    /\ merge_primary = <<>>
    /\ merge_secondary = <<>>
    /\ merged = <<>>
    /\ enhance_current = <<>>
    /\ enhance_validator = <<>>
    /\ suggested = <<>>
    /\ applied = <<>>
    /\ extractions = NoExtractions

\* one minute passes
Tick ==
    /\ \E name \in ParserNames :
          \/ rate_limit_tracker[name] \notin {NotLimited, -1}
          \/ hist.cool[name] \notin {NotLimited, -1}
    /\ rate_limit_tracker' = [name \in ParserNames |-> Elapse(rate_limit_tracker[name])]
    /\ hist' = [hist EXCEPT !.cool = [name \in ParserNames |-> Elapse(hist.cool[name])]]
    /\ UNCHANGED <<mode, current_index, pc, calls, parsers_tried, best_result, best_score,
                   parser_name, result, validator_name, idx, results, outcome>>
    /\ UNCHANGED call_vars

\* a call that starts its rotation at the first parser whatever came before
ParseResume_ResetCursor ==
    /\ pc \in {"idle", "done"}
    /\ calls < MaxCalls
    /\ calls' = calls + 1
    /\ pc' = CASE mode = "adaptive" -> "rotate"
               [] mode = "fallback" -> "fallback"
               [] mode = "ensemble" -> "ensemble"
               [] mode = "validation" -> "primary"
    /\ parsers_tried' = {}
    /\ best_result' = <<>>
    /\ best_score' = 0
    /\ parser_name' = None
    /\ result' = <<>>
    /\ validator_name' = None
    /\ idx' = 1
    /\ results' = <<>>
    /\ hist' = NoHistory
    /\ outcome' = NoOutcome
    /\ current_index' = 0
    /\ UNCHANGED <<mode, rate_limit_tracker>>
    /\ UNCHANGED call_vars

\* parse_resume: dispatch on the mode
ParseResume ==
    /\ pc \in {"idle", "done"}
    /\ calls < MaxCalls
    /\ calls' = calls + 1
    /\ pc' = CASE mode = "adaptive" -> "rotate"
               [] mode = "fallback" -> "fallback"
               [] mode = "ensemble" -> "ensemble"
               [] mode = "validation" -> "primary"
    /\ parsers_tried' = {}
    /\ best_result' = <<>>
    /\ best_score' = 0
    /\ parser_name' = None
    /\ result' = <<>>
    /\ validator_name' = None
    /\ idx' = 1
    /\ results' = <<>>
    /\ hist' = NoHistory
    /\ outcome' = NoOutcome
    /\ UNCHANGED instance_vars
    /\ UNCHANGED call_vars

\* ------------------------------------------------------------------------
\* _adaptive_parse
\* ------------------------------------------------------------------------
\* the while test; on exit, the code after the loop
LoopTest ==
    /\ pc = "rotate"
    /\ IF LoopContinues(parsers_tried)
       THEN /\ pc' = "select"
            /\ outcome' = outcome
       ELSE /\ pc' = "done"
            /\ outcome' = AfterLoop(best_result)
    /\ UNCHANGED <<instance_vars, calls, parsers_tried, best_result, best_score,
                   parser_name, result, validator_name, idx, results, hist>>
    /\ UNCHANGED call_vars

\* _get_next_available_parser, the break, and the already-tried test
SelectParser ==
    /\ pc = "select"
    /\ LET next == GetNextAvailableParser(current_index, rate_limit_tracker)
       IN /\ current_index' = next.index
          /\ IF ~next.found
             THEN \* break, then the code after the loop
                  /\ rate_limit_tracker' = next.tracker
                  /\ pc' = "done"
                  /\ outcome' = AfterLoop(best_result)
                  /\ UNCHANGED <<parsers_tried, parser_name>>
             ELSE LET check == IF AlreadyTried(next.name, parsers_tried)
                               THEN IsRateLimited(next.tracker, next.name)
                               ELSE [limited |-> FALSE, tracker |-> next.tracker]
                  IN /\ rate_limit_tracker' = check.tracker
                     /\ outcome' = outcome
                     /\ IF AlreadyTried(next.name, parsers_tried) /\ ~check.limited
                        THEN \* continue
                             /\ pc' = "rotate"
                             /\ UNCHANGED <<parsers_tried, parser_name>>
                        ELSE /\ parsers_tried' = parsers_tried \cup {next.name}
                             /\ parser_name' = next.name
                             /\ pc' = "invoke"
    /\ UNCHANGED <<mode, calls, best_result, best_score, result, validator_name,
                   idx, results, hist>>
    /\ UNCHANGED call_vars

\* parser.parse_resume returned a record: score it, track the best, test the threshold
AdaptiveSuccess(rec) ==
    LET score == ScoreResult(rec)
    IN /\ hist' = Note(hist, parser_name, "rotate", <<rec>>, "")
       /\ IF IsBetter(score, best_score)
          THEN best_result' = <<rec>> /\ best_score' = score
          ELSE UNCHANGED <<best_result, best_score>>
       /\ IF MeetsThreshold(score)
          THEN result' = <<rec>> /\ pc' = "cross_validate"
          ELSE result' = result /\ pc' = "rotate"
       /\ UNCHANGED <<instance_vars, calls, parsers_tried, parser_name, validator_name,
                      idx, results, outcome>>

\* parser.parse_resume raised: bench the parser on a rate-limit signature
AdaptiveFailure(msg) ==
    /\ hist' = Note(hist, parser_name, "rotate", <<>>, msg)
    /\ IF IsRateLimitError(msg)
       THEN /\ rate_limit_tracker' = MarkRateLimited(rate_limit_tracker, parser_name, CooldownMinutes)
            /\ parsers_tried' = parsers_tried \ {parser_name}
       ELSE UNCHANGED <<rate_limit_tracker, parsers_tried>>
    /\ pc' = "rotate"
    /\ UNCHANGED <<mode, current_index, calls, best_result, best_score, parser_name,
                   result, validator_name, idx, results, outcome>>

AdaptiveInvoke ==
    /\ pc = "invoke"
    /\ Rotations(hist) < total_parsers + MaxRetries
    /\ UNCHANGED call_vars
    /\ \/ \E rec \in ProviderRecords : AdaptiveSuccess(rec)
       \/ \E msg \in ProviderErrors : AdaptiveFailure(msg)

\* ------------------------------------------------------------------------
\* _cross_validate (adaptive and validation modes)
\* ------------------------------------------------------------------------
\* pick the validator; without one the primary result is returned
CrossValidateSelect ==
    /\ pc = "cross_validate"
    /\ LET pick == PickValidator(1, parser_name, rate_limit_tracker)
       IN /\ rate_limit_tracker' = pick.tracker
          /\ IF pick.found
             THEN /\ validator_name' = pick.name
                  /\ pc' = "validate"
                  /\ outcome' = outcome
             ELSE /\ validator_name' = validator_name
                  /\ pc' = "done"
                  /\ outcome' = Returned(result[1], "unvalidated")
    /\ UNCHANGED <<mode, current_index, calls, parsers_tried, best_result, best_score,
                   parser_name, result, idx, results, hist>>
    /\ UNCHANGED call_vars

\* all strings that can be in a skills set of this call
SkillsOf(primary, secondary) == Range(primary.skills) \cup Range(secondary.skills)

\* the validator returned a record: merge, suggest, auto-apply
ValidatorSuccess(rec) ==
    /\ hist' = Note(hist, validator_name, "validate", <<rec>>, "")
    /\ \E hash_order \in SetOrders(SkillsOf(result[1], rec)) :
          LET enhanced_result == EnhancedResult(result[1], rec, hash_order)
          IN outcome' = IF Validates(enhanced_result)
                        THEN Returned(enhanced_result, "validated")
                        ELSE Returned(result[1], "unvalidated")
    /\ pc' = "done"
    /\ UNCHANGED <<instance_vars, calls, parsers_tried, best_result, best_score,
                   parser_name, result, validator_name, idx, results>>

\* the validator raised: validation is skipped
ValidatorFailure(msg) ==
    /\ hist' = Note(hist, validator_name, "validate", <<>>, msg)
    /\ outcome' = Returned(result[1], "unvalidated")
    /\ pc' = "done"
    /\ UNCHANGED <<instance_vars, calls, parsers_tried, best_result, best_score,
                   parser_name, result, validator_name, idx, results>>

ValidatorInvoke ==
    /\ pc = "validate"
    /\ UNCHANGED call_vars
    /\ \/ \E rec \in ProviderRecords : ValidatorSuccess(rec)
       \/ \E msg \in ProviderErrors : ValidatorFailure(msg)

\* ------------------------------------------------------------------------
\* _parse_with_fallback
\* ------------------------------------------------------------------------
FallbackSuccess(name, tracker, rec) ==
    /\ hist' = Note(hist, name, "fallback", <<rec>>, "")
    /\ rate_limit_tracker' = tracker
    /\ outcome' = Returned(rec, "fallback")
    /\ pc' = "done"
    /\ UNCHANGED idx

FallbackFailure(name, tracker, msg) ==
    /\ hist' = Note(hist, name, "fallback", <<>>, msg)
    /\ rate_limit_tracker' = IF IsRateLimitErrorSimple(msg)
                             THEN MarkRateLimited(tracker, name, DefaultCooldownMinutes)
                             ELSE tracker
    /\ idx' = idx + 1
    /\ UNCHANGED <<pc, outcome>>

\* one iteration of the for loop, or the raise after it
FallbackStep ==
    /\ pc = "fallback"
    /\ IF idx > Len(parsers)
       THEN /\ outcome' = Raised(AllFailedSimple, "all_failed")
            /\ pc' = "done"
            /\ UNCHANGED <<rate_limit_tracker, idx, hist>>
       ELSE LET name == parsers[idx]
                check == IsRateLimited(rate_limit_tracker, name)
            IN IF check.limited
               THEN /\ idx' = idx + 1
                    /\ rate_limit_tracker' = check.tracker
                    /\ UNCHANGED <<pc, outcome, hist>>
               ELSE \/ \E rec \in ProviderRecords : FallbackSuccess(name, check.tracker, rec)
                    \/ \E msg \in ProviderErrors : FallbackFailure(name, check.tracker, msg)
    /\ UNCHANGED <<mode, current_index, calls, parsers_tried, best_result, best_score,
                   parser_name, result, validator_name, results>>
    /\ UNCHANGED call_vars

\* ------------------------------------------------------------------------
\* _parse_with_ensemble
\* ------------------------------------------------------------------------
\* results.sort(key=score, reverse=True); results[0]: the sort is stable, so
\* the first entry with the highest score
RECURSIVE BestOf(_)
BestOf_Last(rs) ==
    rs[CHOOSE k \in 1..Len(rs) :
         \A j \in 1..Len(rs) : /\ rs[j].score <= rs[k].score
                                /\ (j > k => rs[j].score < rs[k].score)]

BestOf(rs) ==
    IF Len(rs) = 1 THEN rs[1]
    ELSE LET rest == BestOf(Tail(rs))
         IN IF rest.score > Head(rs).score THEN rest ELSE Head(rs)

EnsembleSuccess(name, tracker, rec) ==
    /\ hist' = Note(hist, name, "ensemble", <<rec>>, "")
    /\ results' = Append(results, [name |-> name, result |-> rec, score |-> ScoreResult(rec)])
    /\ rate_limit_tracker' = tracker

EnsembleFailure(name, tracker, msg) ==
    /\ hist' = Note(hist, name, "ensemble", <<>>, msg)
    /\ rate_limit_tracker' = IF IsRateLimitErrorSimple(msg)
                             THEN MarkRateLimited(tracker, name, DefaultCooldownMinutes)
                             ELSE tracker
    /\ UNCHANGED results

\* one iteration of the for loop, or the selection after it
EnsembleStep ==
    /\ pc = "ensemble"
    /\ IF idx > Len(parsers)
       THEN /\ outcome' = IF results = <<>> THEN Raised(AllFailedSimple, "all_failed")
                          ELSE Returned(BestOf(results).result, "ensemble")
            /\ pc' = "done"
            /\ UNCHANGED <<rate_limit_tracker, idx, hist, results>>
       ELSE LET name == parsers[idx]
                check == IsRateLimited(rate_limit_tracker, name)
            IN /\ idx' = idx + 1
               /\ UNCHANGED <<pc, outcome>>
               /\ IF check.limited
                  THEN /\ rate_limit_tracker' = check.tracker
                       /\ UNCHANGED <<hist, results>>
                  ELSE \/ \E rec \in ProviderRecords : EnsembleSuccess(name, check.tracker, rec)
                       \/ \E msg \in ProviderErrors : EnsembleFailure(name, check.tracker, msg)
    /\ UNCHANGED <<mode, current_index, calls, parsers_tried, best_result, best_score,
                   parser_name, result, validator_name>>
    /\ UNCHANGED call_vars

\* ------------------------------------------------------------------------
\* _parse_with_validation
\* ------------------------------------------------------------------------
\* a primary whose rate-limit error is caught, marks it and ends the call
ValidationPrimary_Marking ==
    /\ pc = "primary"
    /\ LET primary_name == parsers[1]
       IN \/ \E rec \in ProviderRecords :
               /\ hist' = Note(hist, primary_name, "primary", <<rec>>, "")
               /\ parser_name' = primary_name
               /\ result' = <<rec>>
               /\ pc' = "cross_validate"
               /\ outcome' = outcome
               /\ UNCHANGED rate_limit_tracker
          \/ \E msg \in ProviderErrors :
               /\ hist' = Note(hist, primary_name, "primary", <<>>, msg)
               /\ outcome' = Raised(ParseError(primary_name, msg), "primary")
               /\ pc' = "done"
               /\ rate_limit_tracker' =
                     IF IsRateLimitError(msg)
                     THEN MarkRateLimited(rate_limit_tracker, primary_name, CooldownMinutes)
                     ELSE rate_limit_tracker
               /\ UNCHANGED <<parser_name, result>>
    /\ UNCHANGED <<mode, current_index, calls, parsers_tried, best_result, best_score,
                   validator_name, idx, results>>
    /\ UNCHANGED call_vars

\* the primary is self.parsers[0]; its exception is not caught
ValidationPrimary ==
    /\ pc = "primary"
    /\ LET primary_name == parsers[1]
       IN \/ \E rec \in ProviderRecords :
               /\ hist' = Note(hist, primary_name, "primary", <<rec>>, "")
               /\ IF Len(parsers) < 2
                  THEN /\ outcome' = Returned(rec, "single")
                       /\ pc' = "done"
                       /\ UNCHANGED <<parser_name, result>>
                  ELSE /\ parser_name' = primary_name
                       /\ result' = <<rec>>
                       /\ pc' = "cross_validate"
                       /\ outcome' = outcome
          \/ \E msg \in ProviderErrors :
               /\ hist' = Note(hist, primary_name, "primary", <<>>, msg)
               /\ outcome' = Raised(ParseError(primary_name, msg), "primary")
               /\ pc' = "done"
               /\ UNCHANGED <<parser_name, result>>
    /\ UNCHANGED <<instance_vars, calls, parsers_tried, best_result, best_score,
                   validator_name, idx, results>>
    /\ UNCHANGED call_vars

\* ------------------------------------------------------------------------
\* Specification
\* ------------------------------------------------------------------------
Next ==
    \/ Tick
    \/ ParseResume
    \/ LoopTest
    \/ SelectParser
    \/ AdaptiveInvoke
    \/ CrossValidateSelect
    \/ ValidatorInvoke
    \/ FallbackStep
    \/ EnsembleStep
    \/ ValidationPrimary

Spec == Init /\ [][Next]_vars

TypeOK ==
    /\ mode \in Modes
    /\ current_index \in 0..(Len(parsers) - 1)
    /\ parsers_tried \subseteq ParserNames
    /\ \A name \in ParserNames :
          rate_limit_tracker[name] \in {NotLimited} \cup (-1..CooldownMinutes)

\* ------------------------------------------------------------------------
\* Properties
\* ------------------------------------------------------------------------
Adaptive == mode = "adaptive"

\* the message carries a rate-limit signature
HasSignature(msg) == SignaturesIn(msg) # {}

\* the parser raised an error with a rate-limit signature in the running call
RaisedLimit(name) == \E msg \in hist.errs[name] : HasSignature(msg)

\* no parser raised an error with a rate-limit signature in the running call
NoLimitErrors == \A name \in ParserNames : ~RaisedLimit(name)

\* every parser was invoked by the rotation loop and raised only hard errors
AllFailedHard ==
    \A name \in ParserNames :
        /\ hist.calls["rotate"][name] >= 1
        /\ hist.errs[name] # {}
        /\ name \notin hist.oks
        /\ ~RaisedLimit(name)

\* C1: in adaptive mode, once a record returned to the rotation loop scores
\* at or above the threshold, the rotation loop invokes no further provider;
\* at most one cross-validation invocation follows, and none happens without
\* such a record.
C1_StopsRotating ==
    Adaptive =>
        /\ hist.late = 0
        /\ CallsIn(hist, "validate") <= 1
        /\ (CallsIn(hist, "validate") = 1 => hist.accepted)

\* C1 witness: a call ended after acceptance and one cross-validation while
\* some provider was never invoked by the rotation loop.
C1_Witness ==
    /\ Adaptive /\ pc = "done" /\ hist.accepted
    /\ CallsIn(hist, "validate") = 1
    /\ \E name \in ParserNames : hist.calls["rotate"][name] = 0

\* C2: when one provider was benched during the pass, its cooldown is still
\* running and every other provider has been attempted without meeting the
\* threshold, the rotation loop does not begin another iteration.
C2_LoopEndsWhenOthersTried ==
    Adaptive =>
        ~(/\ pc = "select"
          /\ ~hist.accepted
          /\ \E benched \in ParserNames :
                /\ hist.cool[benched] \in 1..5
                /\ parsers_tried = ParserNames \ {benched})

C4_InvocationsBounded ==
    Adaptive =>
        /\ Rotations(hist) <= total_parsers
        /\ CallsIn(hist, "validate") <= 1

\* what C5 says of the state in which an adaptive call returns an accepted
\* candidate: a provider other than the accepted one that raised a
\* rate-limit error was not invoked again and is reported as limited
C5_AtReturn ==
    outcome.site \in {"validated", "unvalidated"} =>
        \A name \in ParserNames \ {parser_name} :
            RaisedLimit(name) =>
                /\ name \notin hist.again
                /\ IsRateLimited(rate_limit_tracker, name).limited

\* C5 (as stated): when provider A raised a rate-limit error and another
\* provider's result is then accepted, A was not invoked again in that call
\* and is reported as rate-limited when the call returns.
C5_BenchedNeverRetried ==
    [][(Adaptive /\ pc # "done" /\ pc' = "done") => C5_AtReturn']_vars

\* C5 (amended): for the 5 minutes after provider A raised a rate-limit
\* error in the rotation loop, the tracker holds A's expiry, A is reported
\* as limited and is not in the attempted set, and A is not invoked, neither
\* by the rotation loop nor as the cross-validator.
C5_BenchedDuringCooldown ==
    Adaptive =>
        /\ hist.early = {}
        /\ \A name \in ParserNames :
              hist.cool[name] \in 0..5 =>
                 /\ rate_limit_tracker[name] = hist.cool[name]
                 /\ IsRateLimited(rate_limit_tracker, name).limited
                 /\ name \notin parsers_tried

\* C5 witness: a call returned a validated result of another provider while
\* the cooldown of a provider benched in that call was running.
C5_Witness ==
    /\ Adaptive /\ pc = "done" /\ outcome.site = "validated"
    /\ \E name \in ParserNames \ {parser_name, validator_name} :
          /\ hist.cool[name] \in 0..5
          /\ RaisedLimit(name)
          /\ hist.calls["rotate"][name] = 1

\* C6: when all providers have been attempted, at least one returned a record
\* and none met the threshold, the call returns the first record of highest
\* score among those returned in the pass.
C6_BestReturned ==
    (Adaptive /\ pc = "done" /\ parsers_tried = ParserNames
        /\ hist.top # <<>> /\ ~hist.accepted) =>
        /\ outcome.kind = "returned"
        /\ outcome.value = hist.top

\* C6 witness: such a call ended after at least two providers returned a record.
C6_Witness ==
    /\ Adaptive /\ pc = "done" /\ parsers_tried = ParserNames /\ ~hist.accepted
    /\ Cardinality(hist.oks) >= 2
    /\ outcome.site = "best"

\* C7: in every mode, if parse_resume raises then every configured provider
\* was invoked during that call and raised an error.
C7_FailsOnlyWhenAllFail ==
    outcome.kind = "raised" =>
        \A name \in ParserNames : CallsOf(hist, name) >= 1 /\ hist.errs[name] # {}

\* C8 (as stated): when all providers raise non-rate-limit errors in an
\* adaptive call, the failure raised names every provider attempted.
C8_FailureNamesProviders ==
    (Adaptive /\ pc = "done" /\ AllFailedHard) =>
        /\ outcome.kind = "raised"
        /\ \A name \in ParserNames :
              hist.calls["rotate"][name] >= 1 => name \in Range(outcome.message)

\* C8 (amended): in that case the failure raised states the number of
\* configured providers and names none of them.
C8_FailureCountsProviders ==
    (Adaptive /\ pc = "done" /\ AllFailedHard) =>
        /\ outcome.kind = "raised"
        /\ ToString(total_parsers) \in Range(outcome.message)
        /\ \A name \in ParserNames : name \notin Range(outcome.message)

\* C8 witness: an adaptive call ended after every provider raised a hard error.
C8_Witness == Adaptive /\ pc = "done" /\ AllFailedHard /\ outcome.site = "all_failed"

\* C9: the record returned by an adaptive call after a successful
\* cross-validation scores at least as high as the accepted candidate.
C9_ValidationNeverLowersScore ==
    (Adaptive /\ outcome.site = "validated") =>
        ScoreResult(outcome.value[1]) >= ScoreResult(result[1])

\* what _is_rate_limited answers and leaves behind for a stored remaining time
LimitedAndKept(name) ==
    LET check == IsRateLimited(rate_limit_tracker, name)
    IN check.limited /\ check.tracker = rate_limit_tracker

FreeAndCleared(name) ==
    LET check == IsRateLimited(rate_limit_tracker, name)
    IN /\ ~check.limited
       /\ check.tracker = [rate_limit_tracker EXCEPT ![name] = NotLimited]

\* C10 (as stated): is_limited answers true and keeps the expiry while
\* now < expiry, answers false and clears the expiry when now >= expiry, and
\* answers false for a provider without a stored expiry.
C10_ExpiryInclusive ==
    \A name \in ParserNames :
        IF rate_limit_tracker[name] = NotLimited THEN FreeAndCleared(name)
        ELSE IF rate_limit_tracker[name] > 0 THEN LimitedAndKept(name)
        ELSE FreeAndCleared(name)

\* C10 (amended): is_limited answers true and keeps the expiry while
\* now <= expiry, answers false and clears the expiry when now > expiry, and
\* answers false for a provider without a stored expiry.
C10_ExpiryExclusive ==
    \A name \in ParserNames :
        IF rate_limit_tracker[name] = NotLimited THEN FreeAndCleared(name)
        ELSE IF rate_limit_tracker[name] >= 0 THEN LimitedAndKept(name)
        ELSE FreeAndCleared(name)

\* C10 witness: a provider benched in this call was invoked again after its
\* expiry had passed and been cleared, while another provider stands at the
\* instant of its expiry.
C10_Witness ==
    /\ \E name \in ParserNames : rate_limit_tracker[name] = 0
    /\ \E name \in ParserNames : name \in hist.again /\ rate_limit_tracker[name] = NotLimited

\* ------------------------------------------------------------------------
\* Cross-validation outcomes
\* ------------------------------------------------------------------------
\* the running adaptive call ended after a rotation result was accepted
AcceptedAndDone == Adaptive /\ pc = "done" /\ hist.accepted

\* no validator was available: _cross_validate returned before invoking one
NoValidatorAvailable == CallsIn(hist, "validate") = 0

\* the validator was invoked and raised
ValidatorRaised == CallsIn(hist, "validate") = 1 /\ hist.vrec = <<>>

\* the suggestions for this pair hold a field-level "add" for a project, which
\* _apply_suggestions appends to the project list, so that PortfolioData(**data)
\* raises
ApplyRaises(primary_result, validation_result) ==
    \E hash_order \in SetOrders(SkillsOf(primary_result, validation_result)) :
        LET merged_result == MergeResults(primary_result, validation_result, hash_order)
            suggestions == GenerateSuggestions(merged_result, validation_result)
        IN \E i \in 1..Len(suggestions) :
              /\ suggestions[i].type = "projects"
              /\ suggestions[i].action = "add"
              /\ suggestions[i].field # ""

ApplyRaised == hist.vrec # <<>> /\ ApplyRaises(hist.top[1], hist.vrec[1])

\* C11: in adaptive mode, when a record was accepted and no validator was
\* available, or the validator raised, or the auto-apply of the suggestions
\* raised, parse_resume raises nothing and returns the accepted record exactly
\* as its provider returned it.
C11_ValidationNeverFatal ==
    (AcceptedAndDone /\ (NoValidatorAvailable \/ ValidatorRaised \/ ApplyRaised))
        => /\ outcome.kind = "returned"
           /\ outcome.value = hist.top
           /\ outcome.value = result

\* the auto-apply raised after a validator returned a record, and the call
\* returned the accepted record
C11_Witness ==
    /\ AcceptedAndDone
    /\ ApplyRaised
    /\ outcome = Returned(hist.top[1], "unvalidated")

\* ------------------------------------------------------------------------
\* Direct calls of _score_result: one call, then the same record again or the
\* record with a required field supplied
\* ------------------------------------------------------------------------
ScoredNames == {None, "Jo", "Test User"}
ScoredEmails == {None, "bad", "a@b", "test@example.com"}
ScoredLinks == {None, "linkedin.com/in/x"}
ScoredSkills == {<<>>, <<"Python">>}
ScoredExperience == {<<>>, <<Experience("Role", "Company", "Jan 2020", "Present", DescLong)>>}
ScoredEducation == {<<>>, <<Education("Degree", "School")>>, <<Education("Degree", "")>>}
ScoredProjects ==
    {<<>>, <<Project("Project", "FastAPI", "Built APIs", None, None)>>,
     <<Project("", "FastAPI", "Built APIs", None, None)>>}
ScoredAchievements == {<<>>, <<Achievement("Best Paper", None)>>}

\* the records passed to the scorer (the tests pass Mock records, so that name
\* and email need not satisfy the PortfolioData validators)
ScorerInputs ==
    {PortfolioData(PersonalInfo(name, email, None, linkedin, None, None, None),
                   skills, experience, education, projects, achievements) :
        name \in ScoredNames, email \in ScoredEmails, linkedin \in ScoredLinks,
        skills \in ScoredSkills, experience \in ScoredExperience,
        education \in ScoredEducation, projects \in ScoredProjects,
        achievements \in ScoredAchievements}

\* the object passed as data, after the call: _score_result only reads it
DataAfterScore(data) == data

\* a constructed router in any of its states between calls
ScorerInit ==
    /\ mode \in Modes
    /\ rate_limit_tracker \in {[name \in ParserNames |-> NotLimited],
                               [name \in ParserNames |->
                                   IF name = parsers[1] THEN CooldownMinutes ELSE NotLimited]}
    /\ current_index \in 0..(Len(parsers) - 1)
    /\ pc = "idle"
    /\ calls = 0
    /\ parsers_tried = {}
    /\ best_result = <<>>
    /\ best_score = 0
    /\ parser_name = None
    /\ result = <<>>
    /\ validator_name = None
    /\ idx = 1
    /\ results = <<>>
    /\ hist = NoHistory
    /\ outcome = NoOutcome
    /\ scored_data = <<>>
    /\ scores = <<>>
    /\ merge_primary = <<>>
    /\ merge_secondary = <<>>
    /\ merged = <<>>
    /\ enhance_current = <<>>
    /\ enhance_validator = <<>>
    /\ suggested = <<>>
    /\ applied = <<>>
    /\ extractions = NoExtractions

scorer_frame ==
    <<mode, rate_limit_tracker, current_index, pc, calls, parsers_tried, best_result,
      best_score, parser_name, result, validator_name, idx, results, hist, outcome,
      merge_primary, merge_secondary, merged, enhance_vars, extractions>>

\* self._score_result(data)
ScoreCall ==
    /\ scored_data = <<>>
    /\ \E data \in ScorerInputs :
          /\ scores' = <<ScoreResult(data)>>
          /\ scored_data' = <<DataAfterScore(data)>>
    /\ UNCHANGED scorer_frame

\* self._score_result(data) once more on the same object
ScoreAgain ==
    /\ Len(scored_data) = 1
    /\ LET data == scored_data[1]
       IN /\ scores' = Append(scores, ScoreResult(data))
          /\ scored_data' = <<DataAfterScore(data), DataAfterScore(data)>>
    /\ UNCHANGED scorer_frame

\* self._score_result on the record with the name, the email or both replaced
ScoreSupplied ==
    /\ Len(scored_data) = 1
    /\ \E name \in {scored_data[1].personal_info.name, "Test User"},
          email \in {scored_data[1].personal_info.email, "test@example.com"} :
          LET data == [scored_data[1] EXCEPT !.personal_info.name = name,
                                              !.personal_info.email = email]
          IN /\ data # scored_data[1]
             /\ scores' = Append(scores, ScoreResult(data))
             /\ scored_data' = Append(scored_data, DataAfterScore(data))
    /\ UNCHANGED scorer_frame

ScorerNext ==
    \/ ScoreCall
    \/ ScoreAgain
    \/ ScoreSupplied

ScorerSpec == ScorerInit /\ [][ScorerNext]_vars

OtherwiseEmpty(data) ==
    /\ data.skills = <<>> /\ data.experience = <<>> /\ data.education = <<>>
    /\ data.projects = <<>> /\ data.achievements = <<>>
    /\ \A f \in PersonalInfoFields \ {"name", "email"} : data.personal_info[f] = None

ValidName(name) == name \notin {None, ""} /\ StrLen(name) > 2

ValidEmail(email) == email \notin {None, ""} /\ HasAt(email) /\ DomainHasDot(email)

\* new is old with a valid name in place of a missing or invalid one, a valid
\* email in place of a missing or invalid one, or both
Supplies(old, new) ==
    /\ new # old
    /\ new = [old EXCEPT !.personal_info.name = new.personal_info.name,
                          !.personal_info.email = new.personal_info.email]
    /\ new.personal_info.name # old.personal_info.name
          => ~ValidName(old.personal_info.name) /\ ValidName(new.personal_info.name)
    /\ new.personal_info.email # old.personal_info.email
          => ~ValidEmail(old.personal_info.email) /\ ValidEmail(new.personal_info.email)

\* C16: for an otherwise-empty record whose name and email are missing or
\* invalid, supplying a valid name, a valid email, or both strictly increases
\* the score.
C16_RequiredFieldsRaiseScore ==
    (/\ Len(scored_data) = 2
     /\ OtherwiseEmpty(scored_data[1])
     /\ ~ValidName(scored_data[1].personal_info.name)
     /\ ~ValidEmail(scored_data[1].personal_info.email)
     /\ Supplies(scored_data[1], scored_data[2]))
        => scores[2] > scores[1]

\* an empty record without name and email scores 25; with both supplied, 75
C16_Witness ==
    /\ Len(scored_data) = 2
    /\ OtherwiseEmpty(scored_data[1])
    /\ scored_data[1].personal_info.name = None
    /\ scored_data[1].personal_info.email = None
    /\ ValidName(scored_data[2].personal_info.name)
    /\ ValidEmail(scored_data[2].personal_info.email)
    /\ scores = <<Pts(25), Pts(75)>>

\* the record of the scenario: no skills, no experience, name "Jo", email "bad"
JoBad(data) ==
    /\ data.skills = <<>>
    /\ data.experience = <<>>
    /\ data.personal_info.name = "Jo"
    /\ data.personal_info.email = "bad"

\* C17 (as claimed): every record with no skills, no experience, name "Jo" and
\* email "bad" earns 0 required-field points and scores strictly below 30,
\* whatever its education, projects and achievements.
C17_LowBelowThirty ==
    \A i \in 1..Len(scored_data) :
        JoBad(scored_data[i])
            => RequiredFieldPoints(scored_data[i]) = 0 /\ scores[i] < Pts(30)

\* the three five-point items such a record can still earn or lose
EducationComplete(data) ==
    /\ data.education # <<>>
    /\ \A i \in 1..Len(data.education) :
          data.education[i].degree \notin {None, ""} /\ data.education[i].school \notin {None, ""}

ProjectsTitled(data) ==
    \A i \in 1..Len(data.projects) : data.projects[i].title \notin {None, ""}

LinksWellFormed(data) ==
    \A f \in {"linkedin", "github"} :
        data.personal_info[f] \in {None, ""} \/ StartsWithHttp(data.personal_info[f])

\* C17 (amended): such a record earns 0 required-field points and scores at
\* most 30: 15 plus 5 for each of complete education, titled projects and
\* well-formed links; it scores exactly 30 when all three hold.
C17_LowAtMostThirty ==
    \A i \in 1..Len(scored_data) :
        JoBad(scored_data[i])
            => /\ RequiredFieldPoints(scored_data[i]) = 0
               /\ scores[i] =
                     Pts(15)
                     + (IF EducationComplete(scored_data[i]) THEN Pts(5) ELSE 0)
                     + (IF ProjectsTitled(scored_data[i]) THEN Pts(5) ELSE 0)
                     + (IF LinksWellFormed(scored_data[i]) THEN Pts(5) ELSE 0)
               /\ scores[i] <= Pts(30)

\* such a record with a complete education entry scores exactly 30
C17_Witness ==
    /\ Len(scored_data) = 1
    /\ JoBad(scored_data[1])
    /\ EducationComplete(scored_data[1])
    /\ scores = <<Pts(30)>>
\* ------------------------------------------------------------------------
\* Direct calls of _merge_results
\* ------------------------------------------------------------------------
MergedPhones == {None, "1234567890"}
MergedSkills ==
    {<<>>, <<"Go">>, <<"Go", "Go">>, <<"Python", "Go">>, <<"Python", "python">>,
     <<"PYTHON", "Go">>}
MergedExperience == {<<>>, <<Experience("Role", "Company", "Jan 2020", "Present", DescLong)>>}
MergedProjects == {<<>>, <<Project("Project", "FastAPI", "Built APIs", None, None)>>}
MergedAchievements ==
    {<<>>, <<Achievement("Best Paper", None)>>, <<Achievement("best paper", "Built APIs")>>}

\* the records passed to the merger (each passes PortfolioData validation)
MergerInputs ==
    {PortfolioData(PersonalInfo("Test User", "test@example.com", phone, None, None, None, None),
                   skills, experience, <<>>, projects, achievements) :
        phone \in MergedPhones, skills \in MergedSkills, experience \in MergedExperience,
        projects \in MergedProjects, achievements \in MergedAchievements}

\* the objects passed as primary and secondary, after the call, had the merger
\* worked on primary itself
InputsAfterMerge_InPlace(primary, secondary, hash_order) ==
    [primary |-> MergeResults(primary, secondary, hash_order), secondary |-> secondary]

\* the objects passed as primary and secondary, after the call: merged and
\* secondary_dict are model_dump() copies, and every assignment and append of
\* the merger goes to merged
InputsAfterMerge(primary, secondary, hash_order) ==
    [primary |-> primary, secondary |-> secondary]

\* a constructed router and the two records about to be merged
MergerInit ==
    /\ mode = "adaptive"
    /\ rate_limit_tracker = [name \in ParserNames |-> NotLimited]
    /\ current_index = 0
    /\ pc = "idle"
    /\ calls = 0
    /\ parsers_tried = {}
    /\ best_result = <<>>
    /\ best_score = 0
    /\ parser_name = None
    /\ result = <<>>
    /\ validator_name = None
    /\ idx = 1
    /\ results = <<>>
    /\ hist = NoHistory
    /\ outcome = NoOutcome
    /\ scored_data = <<>>
    /\ scores = <<>>
    /\ merge_primary \in {<<a>> : a \in MergerInputs}
    /\ merge_secondary \in {<<b>> : b \in MergerInputs}
    /\ merged = <<>>
    /\ enhance_current = <<>>
    /\ enhance_validator = <<>>
    /\ suggested = <<>>
    /\ applied = <<>>
    /\ extractions = NoExtractions

\* self._merge_results(primary, secondary)
MergeCall ==
    /\ merged = <<>>
    /\ \E hash_order \in SetOrders(SkillsOf(merge_primary[1], merge_secondary[1])) :
          LET after == InputsAfterMerge(merge_primary[1], merge_secondary[1], hash_order)
          IN /\ merged' = <<MergeResults(merge_primary[1], merge_secondary[1], hash_order)>>
             /\ merge_primary' = <<after.primary>>
             /\ merge_secondary' = <<after.secondary>>
    /\ UNCHANGED <<mode, rate_limit_tracker, current_index, pc, calls, parsers_tried,
                   best_result, best_score, parser_name, result, validator_name, idx,
                   results, hist, outcome, scored_data, scores, enhance_vars,
                   extractions>>

MergerNext == MergeCall

MergerSpec == MergerInit /\ [][MergerNext]_vars

\* the skills of a list, each once whatever its case
CaseFolded(skills) == {Lower(skills[i]) : i \in 1..Len(skills)}

\* C13 (as claimed): the merged skills are the case-insensitive union with each
\* skill once; skills ["Python","python"] merged with ["PYTHON","Go"] give
\* exactly two skills, a case-variant of "python" and "Go".
C13_SkillsCaseInsensitiveUnion ==
    merged # <<>>
        => /\ Len(merged[1].skills) = Cardinality(CaseFolded(merged[1].skills))
           /\ (/\ merge_primary[1].skills = <<"Python", "python">>
               /\ merge_secondary[1].skills = <<"PYTHON", "Go">>)
                  => /\ Len(merged[1].skills) = 2
                     /\ CaseFolded(merged[1].skills) = {"python", "go"}

\* C14: merging a record with itself gives a record with the same personal
\* info, the same skills (as a set: the list holds each skill once, in any
\* order), and the same experience, education, projects and achievements
\* sequences.
C14_SelfMergeEquivalent ==
    (merged # <<>> /\ merge_primary = merge_secondary)
        => LET a == merge_primary[1]
               m == merged[1]
           IN /\ m.personal_info = a.personal_info
              /\ Range(m.skills) = Range(a.skills)
              /\ m.experience = a.experience
              /\ m.education = a.education
              /\ m.projects = a.projects
              /\ m.achievements = a.achievements

\* a record with two skills, experience, a project and an achievement merged
\* with itself; the skills came back in the other order
C14_Witness ==
    /\ merged # <<>>
    /\ merge_primary = merge_secondary
    /\ merge_primary[1].skills = <<"Python", "Go">>
    /\ merged[1].skills = <<"Go", "Python">>
    /\ merge_primary[1].experience # <<>>
    /\ merge_primary[1].projects # <<>>
    /\ merge_primary[1].achievements # <<>>
    /\ merged[1].achievements = merge_primary[1].achievements

RaisedHard(name) == \E msg \in hist.errs[name] : ~HasSignature(msg)

\* the running call is in its rotation loop or its cross-validation
InCall == pc \notin {"idle", "done"}

\* C18 (as claimed): in an adaptive call, a parser that raised a hard error is
\* counted as attempted and is not invoked again in that call, neither by the
\* rotation loop nor as the cross-validator.
C18_HardFailedNeverReinvoked ==
    Adaptive
        => /\ hist.retried = {}
           /\ InCall => \A name \in ParserNames : RaisedHard(name) => name \in parsers_tried

\* C18 (amended): in an adaptive call, a parser that raised a hard error is
\* counted as attempted and is not invoked again by the rotation loop; it can
\* be invoked once more, as the cross-validator of the accepted record.
C18_HardFailedNotRotatedAgain ==
    Adaptive
        => /\ \A again \in hist.retried :
                 again[2] = "validate" /\ hist.calls["validate"][again[1]] = 1
           /\ InCall => \A name \in ParserNames : RaisedHard(name) => name \in parsers_tried

\* the first parser raised a hard error in the rotation, a later parser was
\* accepted, and the first parser was invoked again as its validator
C18_Witness ==
    /\ Adaptive
    /\ pc = "done"
    /\ hist.accepted
    /\ hist.retried = {<<parsers[1], "validate">>}
    /\ hist.calls["rotate"][parsers[1]] = 1
    /\ parsers[1] \notin hist.oks
    /\ parser_name = parsers[2]

\* C19: the cross-validator is the first parser in construction order that is
\* not the accepted one and is not rate limited when it is chosen, attempted or
\* not; it is never the accepted parser; and when the first parser returned a
\* record below the threshold and the second parser's record was accepted, the
\* first parser is the validator and is invoked exactly twice in the call.
C19_FirstEligibleValidates ==
    /\ pc = "validate"
          => /\ validator_name \in ParserNames \ {parser_name}
             /\ rate_limit_tracker[validator_name] = NotLimited
             /\ \A i, j \in 1..Len(parsers) :
                    (parsers[j] = validator_name /\ i < j)
                        => \/ parsers[i] = parser_name
                           \/ rate_limit_tracker[parsers[i]] # NotLimited
    /\ AcceptedAndDone
          => /\ hist.calls["validate"][parser_name] = 0
             /\ (/\ parser_name = parsers[2]
                 /\ parsers[1] \in hist.oks
                 /\ hist.calls["rotate"][parsers[1]] = 1)
                    => /\ hist.calls["validate"][parsers[1]] = 1
                       /\ CallsOf(hist, parsers[1]) = 2
                       /\ CallsIn(hist, "validate") = 1

\* the first parser scored below the threshold, the second was accepted, the
\* first validated it and returned a record
C19_Witness ==
    /\ AcceptedAndDone
    /\ parser_name = parsers[2]
    /\ parsers[1] \in hist.oks
    /\ hist.calls["rotate"][parsers[1]] = 1
    /\ hist.calls["validate"][parsers[1]] = 1
    /\ CallsOf(hist, parsers[1]) = 2
    /\ outcome.site = "validated"

\* ------------------------------------------------------------------------
\* Rate-limit signatures in the looping modes
\* ------------------------------------------------------------------------
\* C20 (as claimed): in adaptive, fallback and ensemble mode, a parser error
\* that carries one of the five rate-limit signatures benches the parser for
\* the cooldown, and an error that carries none never does.
C20_SignaturesBenchInEveryMode ==
    \A name \in ParserNames :
        /\ (Adaptive /\ InCall)
              => /\ hist.cool[name] \in 0..CooldownMinutes
                       => rate_limit_tracker[name] = hist.cool[name]
                 /\ (hist.errs[name] # {} /\ ~RaisedLimit(name))
                       => rate_limit_tracker[name] = NotLimited
        /\ (mode \in {"fallback", "ensemble"} /\ hist.errs[name] # {})
              => (rate_limit_tracker[name] # NotLimited <=> RaisedLimit(name))

\* ------------------------------------------------------------------------
\* Ensemble mode
\* ------------------------------------------------------------------------
\* position of a parser in priority order
PriorityOf(name) == CHOOSE i \in 1..Len(parsers) : parsers[i] = name

EnsembleDone == mode = "ensemble" /\ pc = "done"

\* C21: a finished ensemble call has invoked every parser at most once, in
\* priority order, leaving out only rate-limited ones, has invoked no
\* validator, and has returned the record of highest score among those
\* produced, the earliest in priority order on a tie; it has raised exactly
\* when no parser produced a record.
C21_EnsembleBestOfAll ==
    EnsembleDone =>
        /\ \A phase \in Phases \ {"ensemble"} : CallsIn(hist, phase) = 0
        /\ \A name \in ParserNames :
              /\ hist.calls["ensemble"][name] <= 1
              /\ hist.calls["ensemble"][name] = 0 => rate_limit_tracker[name] # NotLimited
              /\ name \in hist.oks => rate_limit_tracker[name] = NotLimited
        /\ {results[k].name : k \in 1..Len(results)} = hist.oks
        /\ \A j, k \in 1..Len(results) :
              j < k => PriorityOf(results[j].name) < PriorityOf(results[k].name)
        /\ \A k \in 1..Len(results) : results[k].score = ScoreResult(results[k].result)
        /\ outcome.kind = "raised" <=> hist.oks = {}
        /\ outcome.kind = "raised" => outcome.message = AllFailedSimple
        /\ outcome.kind = "returned" =>
              \E k \in 1..Len(results) :
                  /\ outcome.value = <<results[k].result>>
                  /\ \A j \in 1..Len(results) : results[j].score <= results[k].score
                  /\ \A j \in 1..(k - 1) : results[j].score < results[k].score

\* the second call of an ensemble router: one parser is on cooldown and is
\* left out, the two others return different records of the same score, and
\* the earlier one is returned
C21_Witness ==
    /\ EnsembleDone
    /\ calls = 2
    /\ \E name \in ParserNames : hist.calls["ensemble"][name] = 0
    /\ Len(results) = 2
    /\ results[1].score = results[2].score
    /\ results[1].result # results[2].result
    /\ outcome = Returned(results[1].result, "ensemble")
\* ------------------------------------------------------------------------
\* Fallback mode
\* ------------------------------------------------------------------------
FallbackDone == mode = "fallback" /\ pc = "done"

\* invoked once and raised
InvokedAndFailed(name) ==
    /\ hist.calls["fallback"][name] = 1
    /\ hist.errs[name] # {}
    /\ name \notin hist.oks

\* left out, being on cooldown
SkippedAsLimited(name) ==
    /\ hist.calls["fallback"][name] = 0
    /\ rate_limit_tracker[name] # NotLimited

\* C22: a finished fallback call has walked the parsers in priority order
\* from the first, invoking each at most once and never one on cooldown; if
\* it returned, exactly one parser produced a record, every parser before it
\* failed or was on cooldown and no parser after it was invoked; if it
\* raised, every parser failed or was on cooldown.
C22_FallbackFirstSuccess ==
    FallbackDone =>
        /\ \A phase \in Phases \ {"fallback"} : CallsIn(hist, phase) = 0
        /\ \A name \in ParserNames :
              /\ hist.calls["fallback"][name] <= 1
              /\ hist.calls["fallback"][name] = 1 =>
                    (rate_limit_tracker[name] = NotLimited
                        <=> ~\E msg \in hist.errs[name] : IsRateLimitErrorSimple(msg))
        /\ outcome.kind = "returned" =>
              \E k \in 1..Len(parsers) :
                  /\ hist.oks = {parsers[k]}
                  /\ hist.calls["fallback"][parsers[k]] = 1
                  /\ hist.errs[parsers[k]] = {}
                  /\ outcome.site = "fallback"
                  /\ \A j \in 1..(k - 1) :
                        InvokedAndFailed(parsers[j]) \/ SkippedAsLimited(parsers[j])
                  /\ \A j \in (k + 1)..Len(parsers) : CallsOf(hist, parsers[j]) = 0
        /\ outcome.kind = "raised" =>
              /\ outcome.message = AllFailedSimple
              /\ \A name \in ParserNames : InvokedAndFailed(name) \/ SkippedAsLimited(name)

\* the second call of a fallback router: the first parser is on cooldown and
\* is left out, the second raises, the third returns a record
C22_Witness ==
    /\ FallbackDone
    /\ calls = 2
    /\ rate_limit_tracker[parsers[1]] >= 0
    /\ SkippedAsLimited(parsers[1])
    /\ InvokedAndFailed(parsers[2])
    /\ hist.oks = {parsers[3]}
    /\ outcome.kind = "returned"
\* ------------------------------------------------------------------------
\* Merging achievements
\* ------------------------------------------------------------------------
\* the secondary entries whose title, lower-cased, no primary entry has
NewByFoldedTitle(primary_ach, secondary_ach) ==
    LET folded == {Lower(primary_ach[i].title) : i \in 1..Len(primary_ach)}
    IN FilterSeq(secondary_ach,
                 {secondary_ach[i] : i \in {k \in 1..Len(secondary_ach) :
                                           Lower(secondary_ach[k].title) \notin folded}})

\* C23 (as claimed): the merged achievements are primary's entries followed by
\* the secondary entries whose title no primary entry has, compared
\* case-insensitively; [{title: "Best Paper"}] merged with
\* [{title: "best paper"}] gives exactly one achievement.
C23_AchievementsCaseInsensitive ==
    merged # <<>>
        => /\ merged[1].achievements
                = merge_primary[1].achievements
                    \o NewByFoldedTitle(merge_primary[1].achievements,
                                        merge_secondary[1].achievements)
           /\ (/\ merge_primary[1].achievements = <<Achievement("Best Paper", None)>>
               /\ merge_secondary[1].achievements = <<Achievement("best paper", "Built APIs")>>)
                  => Len(merged[1].achievements) = 1
\* ------------------------------------------------------------------------
\* The enhancement steps called in turn on a pair of records, as the try
\* block of _cross_validate calls them: _merge_results (or not, when the
\* suggestion engine is handed the record itself), _generate_suggestions,
\* _apply_suggestions, and _generate_suggestions again on what came back
\* ------------------------------------------------------------------------
MaxRounds == 2

EnhancedPhones == {None, "123", "1234567890"}
EnhancedSkills == {<<"Python">>, <<"python", "Go">>}
EnhancedAchievements ==
    {<<>>, <<Achievement("Best Paper", None)>>, <<Achievement("best paper", "Built APIs")>>}
EnhancedExperience ==
    {<<>>,
     <<Experience("Role", "Company", "Jan 2020", "Present", "Built APIs")>>,
     <<Experience("Role", "Company", "Jan 2020", "Present", DescLong)>>,
     <<Experience("Role", "Company", "Jan 2020", "Present", DescLong),
       Experience("Engineer", "Company", "Jan 2020", None, "")>>}
EnhancedEducation == {<<>>, <<Education("Degree", "School")>>}
EnhancedProjects ==
    {<<>>,
     <<Project("Project", "", "", None, None)>>,
     <<Project("Project", "FastAPI", "Built APIs", None, None)>>,
     <<Project("Project", "FastAPI", DescLong, None, None)>>}

\* the records passed (each passes PortfolioData validation)
EnhanceInputs ==
    {PortfolioData(PersonalInfo("Test User", "test@example.com", phone, None, None, None, None),
                   skills, <<>>, <<>>, <<>>, achievements) :
        phone \in EnhancedPhones, skills \in EnhancedSkills,
        achievements \in EnhancedAchievements}
    \cup
    {PortfolioData(PersonalInfo("Test User", "test@example.com", None, None, None, None, None),
                   <<"Python">>, experience, education, projects, <<>>) :
        experience \in EnhancedExperience, education \in EnhancedEducation,
        projects \in EnhancedProjects}

\* _apply_suggestions(current, suggestions): the record returned, or the
\* ValidationError of the final PortfolioData(**data), which no try encloses
ApplyOutcome(current, suggestions, hash_order) ==
    LET data == ApplySuggestions(current, suggestions, hash_order)
    IN IF Validates(data)
       THEN [raised |-> FALSE, value |-> <<data>>]
       ELSE [raised |-> TRUE, value |-> <<>>]

\* a constructed router and the two records about to be handled
EnhanceInit ==
    /\ mode = "adaptive"
    /\ rate_limit_tracker = [name \in ParserNames |-> NotLimited]
    /\ current_index = 0
    /\ pc = "idle"
    /\ calls = 0
    /\ parsers_tried = {}
    /\ best_result = <<>>
    /\ best_score = 0
    /\ parser_name = None
    /\ result = <<>>
    /\ validator_name = None
    /\ idx = 1
    /\ results = <<>>
    /\ hist = NoHistory
    /\ outcome = NoOutcome
    /\ scored_data = <<>>
    /\ scores = <<>>
    /\ merge_primary = <<>>
    /\ merge_secondary = <<>>
    /\ merged = <<>>
    /\ enhance_current \in {<<a>> : a \in EnhanceInputs}
    /\ enhance_validator \in {<<b>> : b \in EnhanceInputs}
    /\ suggested = <<>>
    /\ applied = <<>>
    /\ extractions = NoExtractions

enhance_frame ==
    <<mode, rate_limit_tracker, current_index, pc, calls, parsers_tried, best_result,
      best_score, parser_name, result, validator_name, idx, results, hist, outcome,
      scored_data, scores, merge_primary, merge_secondary, enhance_current,
      enhance_validator, extractions>>

\* the record the next call works on: what the latest apply returned, else
\* the merged record, else the record passed
CurrentRecord ==
    IF applied # <<>> THEN applied[Len(applied)].value[1]
    ELSE IF merged # <<>> THEN merged[1]
    ELSE enhance_current[1]

\* merged_result = self._merge_results(primary_result, validation_result)
EnhanceMerge ==
    /\ merged = <<>>
    /\ suggested = <<>>
    /\ \E hash_order \in SetOrders(SkillsOf(enhance_current[1], enhance_validator[1])) :
          merged' = <<MergeResults(enhance_current[1], enhance_validator[1], hash_order)>>
    /\ UNCHANGED <<enhance_frame, suggested, applied>>

\* suggestions = self._generate_suggestions(current, validator, resume_text)
SuggestCall ==
    /\ Len(suggested) = Len(applied)
    /\ Len(suggested) < MaxRounds
    /\ applied # <<>> => ~applied[Len(applied)].raised
    /\ suggested' = Append(suggested, GenerateSuggestions(CurrentRecord, enhance_validator[1]))
    /\ UNCHANGED <<enhance_frame, merged, applied>>

\* self._apply_suggestions(current, suggestions)
ApplyCall ==
    /\ Len(applied) < Len(suggested)
    /\ \E hash_order \in SetOrders(SkillsOf(CurrentRecord, enhance_validator[1])) :
          applied' = Append(applied, ApplyOutcome(CurrentRecord, suggested[Len(suggested)],
                                                  hash_order))
    /\ UNCHANGED <<enhance_frame, merged, suggested>>

EnhanceNext ==
    \/ EnhanceMerge
    \/ SuggestCall
    \/ ApplyCall

EnhanceSpec == EnhanceInit /\ [][EnhanceNext]_vars

\* C24 (as claimed): no call of auto-apply is aborted: each returns a record.
C24_ApplyNeverAborts ==
    \A k \in 1..Len(applied) : ~applied[k].raised
\* ------------------------------------------------------------------------
\* The rotation cursor across calls
\* ------------------------------------------------------------------------
\* the parser at a distance from the cursor, in circular order
ParserAt(distance) == parsers[((current_index + distance) % Len(parsers)) + 1]

\* C25: the cursor is moved by the search for the next parser only: starting
\* a call, ending it and everything else leave it where it is; and the first
\* search of an adaptive call starts at the cursor the earlier calls left: it
\* picks the first parser not on cooldown at or after the cursor and leaves
\* the cursor behind that parser.
C25_CursorPersists ==
    [][/\ pc # "select" => current_index' = current_index
       /\ (Adaptive /\ pc = "select" /\ Rotations(hist) = 0 /\ pc' = "invoke") =>
             \E distance \in 0..(Len(parsers) - 1) :
                 /\ parser_name' = ParserAt(distance)
                 /\ ~IsRateLimited(rate_limit_tracker, ParserAt(distance)).limited
                 /\ \A before \in 0..(distance - 1) :
                       IsRateLimited(rate_limit_tracker, ParserAt(before)).limited
                 /\ current_index' = (current_index + distance + 1) % Len(parsers)]_vars

\* the second call of an adaptive router is about to invoke, as its first
\* parser, the second in priority order, while no parser is on cooldown
C25_Witness ==
    /\ Adaptive
    /\ calls = 2
    /\ pc = "invoke"
    /\ Rotations(hist) = 0
    /\ parser_name = parsers[2]
    /\ \A name \in ParserNames : rate_limit_tracker[name] = NotLimited
\* ------------------------------------------------------------------------
\* Scores are positive, so a returned record is always a candidate
\* ------------------------------------------------------------------------
\* C26: every record a parser can return scores at least 10; in an adaptive
\* call the best candidate is set exactly when the rotation loop has been
\* returned a record, and then holds at least 10 points; and the call ends by
\* raising the "all parsers failed" error exactly when no invocation of the
\* call returned a record.
C26_RaisesIffNoRecord ==
    /\ \A rec \in ProviderRecords : ScoreResult(rec) >= Pts(10)
    /\ calls = 0 =>  \* a fact about the scorer alone: looked at once, before the first call
          \A rec \in ScorerInputs \cup MergerInputs \cup EnhanceInputs :
              ScoreResult(rec) >= Pts(10)
    /\ (Adaptive /\ pc \notin {"idle", "done"}) =>
          /\ best_result # <<>> <=> hist.oks # {}
          /\ best_result # <<>> => best_score >= Pts(10)
    /\ (Adaptive /\ pc = "done") =>
          /\ outcome.kind = "raised" <=> hist.oks = {}
          /\ outcome.kind = "raised" => outcome = Raised(AllFailedError, "all_failed")

\* an adaptive call ended by returning a record scoring below the threshold,
\* the only record it was returned, after another parser had raised
C26_Witness ==
    /\ Adaptive
    /\ pc = "done"
    /\ Cardinality(hist.oks) = 1
    /\ \E name \in ParserNames : hist.errs[name] # {} /\ name \notin hist.oks
    /\ outcome.kind = "returned"
    /\ outcome.site = "best"
    /\ ScoreResult(outcome.value[1]) < min_quality_score
\* ------------------------------------------------------------------------
\* Suggestions generated against the merged record
\* ------------------------------------------------------------------------
\* the suggestion fills or enhances one field of an existing project
ProjectFieldSuggestion(sug) ==
    /\ sug.type = "projects"
    /\ sug.index # 0
    /\ sug.field \in {"tech_stack", "description", "link", "github_url"}

\* the suggestion lengthens a personal-info field or an experience description
EnhanceSuggestion(sug) ==
    /\ sug.action = "enhance"
    /\ \/ sug.type = "personal_info" /\ sug.field # ""
       \/ sug.type = "experience" /\ sug.index # 0 /\ sug.field = "description"

\* C27: the suggestions generated from merge(p, v) against v hold no "add" of
\* skills, of an experience, education, project or achievement entry, or of a
\* personal-info field: each one enhances a personal-info field or an
\* experience description, or fills or enhances a field of a project.
C27_NoAddAfterMerge ==
    (merged # <<>> /\ suggested # <<>>) =>
        \A k \in 1..Len(suggested[1]) :
            LET sug == suggested[1][k]
            IN \/ EnhanceSuggestion(sug)
               \/ ProjectFieldSuggestion(sug) /\ sug.action \in {"add", "enhance"}

\* suggesting against the unmerged record would add skills and an entry, and
\* against the merged record a personal-info field is still enhanced and a
\* project field still filled
C27_Witness ==
    /\ merged # <<>>
    /\ suggested # <<>>
    /\ \E sug \in Range(GenerateSuggestions(enhance_current[1], enhance_validator[1])) :
          sug.type \in {"experience", "education", "projects"} /\ sug.action = "add" /\ sug.index = 0
    /\ \E sug \in Range(suggested[1]) : EnhanceSuggestion(sug)
    /\ \E sug \in Range(suggested[1]) : ProjectFieldSuggestion(sug) /\ sug.action = "add"
\* ------------------------------------------------------------------------
\* Suggest, apply, suggest again
\* ------------------------------------------------------------------------
\* C28 (as claimed): auto-applying the suggestions generated for a pair
\* (current, validator) produces a record, and generating suggestions from
\* that record against the same validator gives the empty list.
C28_FixedPointInOneRound ==
    applied # <<>> =>
        /\ applied[1].value # <<>>
        /\ GenerateSuggestions(applied[1].value[1], enhance_validator[1]) = <<>>
        /\ Len(suggested) >= 2 => suggested[2] = <<>>
\* ------------------------------------------------------------------------
\* Validation mode
\* ------------------------------------------------------------------------
ValidationMode == mode = "validation"

InterleavedInit ==
    /\ mode = "adaptive"
    /\ rate_limit_tracker = [name \in ParserNames |-> NotLimited]
    /\ current_index \in 0..(Len(parsers) - 1)
    /\ pc = "idle"
    /\ calls = 0
    /\ parsers_tried = {}
    /\ best_result = <<>>
    /\ best_score = 0
    /\ parser_name = None
    /\ result = <<>>
    /\ validator_name = None
    /\ idx = 1
    /\ results = <<>>
    /\ hist = NoHistory
    /\ outcome = NoOutcome
    /\ scored_data = <<>>
    /\ scores = <<>>
    /\ merge_primary = <<>>
    /\ merge_secondary = <<>>
    /\ merged = <<>>
    /\ enhance_current = <<>>
    /\ enhance_validator = <<>>
    /\ suggested = <<>>
    /\ applied = <<>>
    /\ extractions = NoExtractions

interleaved_frame ==
    <<mode, rate_limit_tracker, pc, calls, parsers_tried, best_result, best_score,
      parser_name, result, validator_name, idx, results, hist, outcome, scored_data,
      scores, merge_primary, merge_secondary, merged, enhance_vars>>

\* parse_resume is called: parsers_tried = set()
StartExtraction(e) ==
    /\ extractions[e].pc = "idle"
    /\ extractions' = [extractions EXCEPT ![e].pc = "test"]
    /\ UNCHANGED <<interleaved_frame, current_index>>

\* while len(parsers_tried) < len(self.parsers), and the code after the loop
ExtractionLoopTest(e) ==
    /\ extractions[e].pc = "test"
    /\ extractions' =
          IF LoopContinues(extractions[e].parsers_tried)
          THEN [extractions EXCEPT ![e].pc = "read"]
          ELSE [extractions EXCEPT ![e].pc = "done", ![e].ended = "exhausted"]
    /\ UNCHANGED <<interleaved_frame, current_index>>

\* name, parser = self.parsers[self.current_index]
ReadCursor(e) ==
    /\ extractions[e].pc = "read"
    /\ extractions' = [extractions EXCEPT ![e].name = parsers[current_index + 1],
                                          ![e].pc = "load"]
    /\ UNCHANGED <<interleaved_frame, current_index>>

\* the right-hand side of line 203 loads self.current_index
LoadCursor(e) ==
    /\ extractions[e].pc = "load"
    /\ extractions' = [extractions EXCEPT ![e].loaded = <<current_index>>,
                                          ![e].pc = "store"]
    /\ UNCHANGED <<interleaved_frame, current_index>>

\* line 203 stores the incremented value; then _is_rate_limited(name), which
\* is False for every parser here, and the return
StoreCursor(e) ==
    /\ extractions[e].pc = "store"
    /\ current_index' = NextIndex(extractions[e].loaded[1])
    /\ extractions' =
          [extractions EXCEPT
              ![e].loaded = <<>>,
              ![e].pc = IF IsRateLimited(rate_limit_tracker, extractions[e].name).limited
                        THEN "read" ELSE "check"]
    /\ UNCHANGED interleaved_frame

\* the already-tried test, parsers_tried.add(name) and the invocation: the
\* record meets the threshold and the loop is left, or the record is below it
\* or the parser raises an error without rate-limit signature and the loop
\* goes on
CheckAndInvoke(e) ==
    /\ extractions[e].pc = "check"
    /\ LET name == extractions[e].name
           tried == extractions[e].parsers_tried
       IN IF AlreadyTried(name, tried)
          THEN extractions' = [extractions EXCEPT ![e].pc = "test"]
          ELSE LET invoked == [extractions EXCEPT
                                  ![e].parsers_tried = tried \cup {name},
                                  ![e].invoked = Append(@, name)]
               IN \/ \E rec \in ProviderRecords :
                       extractions' =
                           IF MeetsThreshold(ScoreResult(rec))
                           THEN [invoked EXCEPT ![e].pc = "done", ![e].ended = "accepted"]
                           ELSE [invoked EXCEPT ![e].pc = "test"]
                  \/ \E msg \in ProviderErrors :
                       /\ ~IsRateLimitError(msg)
                       /\ extractions' = [invoked EXCEPT ![e].pc = "test"]
    /\ UNCHANGED <<interleaved_frame, current_index>>

InterleavedNext ==
    \E e \in Extractions :
        \/ StartExtraction(e)
        \/ ExtractionLoopTest(e)
        \/ ReadCursor(e)
        \/ LoadCursor(e)
        \/ StoreCursor(e)
        \/ CheckAndInvoke(e)

InterleavedSpec == InterleavedInit /\ [][InterleavedNext]_vars

\* the parsers in circular priority order, starting from the given one
RotationFrom(first) ==
    [i \in 1..Len(parsers) |-> parsers[((first - 1 + i - 1) % Len(parsers)) + 1]]

\* C30: with two adaptive calls interleaved on one router and no rate-limit
\* error, the cursor stays within 0..N-1, no call invokes a parser twice, and
\* a call that ends its loop as exhausted has invoked every parser.
C30_InterleavedRotation ==
    /\ current_index \in 0..(Len(parsers) - 1)
    /\ \A e \in Extractions :
          LET invoked == extractions[e].invoked
          IN /\ \A i, j \in 1..Len(invoked) : i # j => invoked[i] # invoked[j]
             /\ Range(invoked) = extractions[e].parsers_tried
             /\ extractions[e].ended = "exhausted" => Range(invoked) = ParserNames

\* both calls are exhausted, each has invoked every parser once, and one of
\* them did so in an order that is no rotation of the priority order
C30_Witness ==
    /\ \A e \in Extractions :
          /\ extractions[e].ended = "exhausted"
          /\ Len(extractions[e].invoked) = Len(parsers)
    /\ \E e \in Extractions :
          \A first \in 1..Len(parsers) : extractions[e].invoked # RotationFrom(first)
====
